---- MODULE Spec2Model ----
(***************************************************************************)
(* Model of sentinel_watcher.py: one run of main(), i.e. one scan of the   *)
(* EC2 instances of us-east-1 (check_ec2_instances) and, for each stopped  *)
(* instance, one remediation attempt (trigger_healing).                    *)
(*                                                                         *)
(* The program is sequential.  Its only inputs are the command line, the   *)
(* provider's answer to describe_instances, the results of the three       *)
(* subprocesses (gh --version, gh copilot, aws ec2 start-instances) and    *)
(* the operator's answer to input().  An action of the model is the code   *)
(* between two such blocking calls; the outcome of each call is chosen     *)
(* by \E.  Everything the program prints and every external call it makes  *)
(* is appended to log, in order.                                           *)
(*                                                                         *)
(* Text that the code transforms (the operator's answer, the tool's        *)
(* stdout) is a sequence of one-character strings, so that strip() and     *)
(* lower() are computed and not assumed.                                   *)
(***************************************************************************)
EXTENDS Integers, Sequences, FiniteSets, TLC

VARIABLES
    mock_mode,      \* args.mock
    reservations,   \* response['Reservations'] the provider would return
    pc,             \* position of main / check_ec2_instances
    ri, ii,         \* the two loop positions of check_ec2_instances
    total_count,
    stopped_count,
    hpc,            \* position inside trigger_healing
    instance_id,    \* argument of the running trigger_healing call
    suggested_cmd,  \* local of trigger_healing
    raw_input,      \* what input() returned, before .strip().lower()
    ret,            \* value returned by check_ec2_instances (-1: none yet)
    exit_code,      \* process exit code (-1: still running)
    describe_result,\* how describe_instances ended ("none": not called)
    log             \* prints and external calls, in program order

vars == <<mock_mode, reservations, pc, ri, ii, total_count, stopped_count,
          hpc, instance_id, suggested_cmd, raw_input, ret, exit_code,
          describe_result, log>>

----------------------------------------------------------------------------
(* Bounds and input sets *)

MaxInstances == 3

\* identifiers the provider gives to the 1st, 2nd, ... instance of a response
InstanceIds == <<"i-1", "i-2", "i-3", "i-4", "i-5", "i-6">>

\* state strings the provider may report for an instance
States == {"running", "stopped", "rebooting"}

\* what the operator may type at the prompt
OperatorInputs == { <<"y">>, <<"Y">>, <<" ", "y">>, <<"y", "e", "s">>,
                    <<>>, <<"n">> }

\* what gh copilot may write to stdout
SuggestionOutputs == { <<>>, <<"\n">>, <<"r", "m", "\n">>, <<"a", "w", "s">> }

----------------------------------------------------------------------------
(* str.strip() and str.lower() *)

Whitespace == {" ", "\t", "\n", "\r"}

RECURSIVE lstrip(_)
lstrip(s) == IF s # <<>> /\ Head(s) \in Whitespace THEN lstrip(Tail(s)) ELSE s

RECURSIVE rstrip(_)
rstrip(s) == IF s # <<>> /\ s[Len(s)] \in Whitespace
             THEN rstrip(SubSeq(s, 1, Len(s) - 1)) ELSE s

strip(s) == rstrip(lstrip(s))

lower_char(c) == CASE c = "Y" -> "y"
                   [] c = "E" -> "e"
                   [] c = "S" -> "s"
                   [] c = "N" -> "n"
                   [] OTHER   -> c

lower(s) == [k \in DOMAIN s |-> lower_char(s[k])]

----------------------------------------------------------------------------
(* The provider's responses *)

Instance(k, st) == [InstanceId |-> InstanceIds[k], State |-> [Name |-> st]]

\* the instances k..n, with states sts, cut into reservations: a new
\* reservation starts at every position of cuts
RECURSIVE Group(_, _, _, _)
Group(k, n, sts, cuts) ==
    IF k > n THEN <<>>
    ELSE LET rest == Group(k + 1, n, sts, cuts)
             me   == Instance(k, sts[k])
         IN IF k = n \/ (k + 1) \in cuts
            THEN <<[Instances |-> <<me>>]>> \o rest
            ELSE <<[Instances |-> <<me>> \o Head(rest).Instances]>> \o Tail(rest)

Responses ==
    { Group(1, n, sts, cuts) :
        <<n, sts, cuts>> \in
          UNION { UNION { { <<m, s, c>> : c \in SUBSET (2..m) } :
                          s \in [1..m -> States] } : m \in 0..MaxInstances } }

RECURSIVE Flatten(_)
Flatten(rs) == IF rs = <<>> THEN <<>> ELSE Head(rs).Instances \o Flatten(Tail(rs))

----------------------------------------------------------------------------
(* The log *)

\* a printed line: its kind and what it shows of the program's state
Out(kind)           == [kind |-> kind]
OutId(kind, id)     == [kind |-> kind, id |-> id]
OutText(kind, text) == [kind |-> kind, cmd |-> text]
OutCounts(kind, a, b) == [kind |-> kind, a |-> a, b |-> b]

\* an external call: the call site, the instance it is made for, its argv
\* and, where the code branches on it at once, how it ended
Call(kind, id, cmd, res) == [kind |-> kind, id |-> id, cmd |-> cmd, res |-> res]

region == "us-east-1"


\* argv of the three subprocesses
ProbeArgv == <<"gh", "--version">>

SuggestArgv(id) ==
    <<"gh", "copilot", "-p",
      "What is the AWS CLI command to start EC2 instance ", id,
      " in the us-east-1 region? Reply with ONLY the command, no explanation.",
      "-s">>

\* a variant of lines 76-77 that runs the suggested text
StartInstancesArgv_suggested(id) == suggested_cmd

StartInstancesArgv(id) ==
    <<"aws", "ec2", "start-instances", "--instance-ids", id, "--region", "us-east-1">>

\* outcomes of the external calls
ProbeOutcomes    == {"ok", "nonzero", "not_found", "os_error"}
SuggestOutcomes  == {"ok", "nonzero", "timeout"}
ExecOutcomes     == {"ok", "nonzero", "os_error"}
DescribeOutcomes == {"ok", "no_credentials", "unauthorized", "client_error", "other"}

----------------------------------------------------------------------------
(* Conditions of the code *)

\* variants of line 141
IsStopped_not_running(state) == state # "running"

IsStopped_or_rebooting(state) == state \in {"stopped", "rebooting"}

\* line 141: if state == 'stopped'
IsStopped(state) == state = "stopped"

\* line 71: input(...).strip().lower()
Normalize(text) == lower(strip(text))

\* a variant of line 73 that also takes "yes"
Approved_yes(response) == response \in { <<"y">>, <<"y", "e", "s">> }

\* line 73: if response == 'y'
Approved(response) == response = <<"y">>

\* a variant without the test of line 60
HasSuggestion_any_text(returncode, cmd) == returncode = 0

\* lines 53 and 60: returncode == 0 and a non-empty stripped stdout
HasSuggestion(returncode, cmd) == returncode = 0 /\ cmd # <<>>

\* a variant of lines 149-151 whose handler does not exit
Fatal_unless_no_credentials(outcome) == outcome \notin {"ok", "no_credentials"}

\* lines 149-161: every exception of the scan ends in sys.exit(1)
Fatal(outcome) == outcome # "ok"

\* a variant of the end of main that exits with a code for its finding
MainExitCode_count(count) == IF count = 0 THEN 0 ELSE 1

\* lines 182-185 and the normal end of the script
MainExitCode(count) == 0

----------------------------------------------------------------------------
Init ==
    /\ mock_mode \in BOOLEAN
    /\ reservations \in (IF mock_mode THEN {<<>>} ELSE Responses)
    /\ pc = "main"
    /\ ri = 0 /\ ii = 0
    /\ total_count = 0 /\ stopped_count = 0
    /\ hpc = "idle"
    /\ instance_id = ""
    /\ suggested_cmd = <<>>
    /\ raw_input = <<>>
    /\ ret = -1
    /\ exit_code = -1
    /\ describe_result = "none"
    /\ log = <<>>

\* main, lines 175-180: banner, then check_ec2_instances(mock_mode=args.mock)
MainStart ==
    /\ pc = "main"
    /\ pc' = "check"
    /\ log' = log \o <<Out("banner")>>
    /\ UNCHANGED <<describe_result, mock_mode, reservations, ri, ii, total_count, stopped_count,
                   hpc, instance_id, suggested_cmd, raw_input, ret, exit_code>>

\* trigger_healing entered (line 31), up to the availability probe
EnterHealing(lg, id) ==
    /\ pc' = "healing"
    /\ hpc' = "probe"
    /\ instance_id' = id
    /\ log' = lg \o <<OutId("healing", id)>>

\* trigger_healing returns to check_ec2_instances: in mock mode lines 118-119
\* follow, otherwise the loop of lines 134-135 goes on
ReturnFromHealing(lg) ==
    /\ hpc' = "idle"
    /\ instance_id' = ""
    /\ suggested_cmd' = <<>>
    /\ raw_input' = <<>>
    /\ exit_code' = exit_code
    /\ IF mock_mode
       THEN /\ log' = lg \o <<OutCounts("summary_mock", 1, 1)>>
            /\ ret' = 1
            /\ pc' = "ret"
       ELSE /\ log' = lg
            /\ ret' = ret
            /\ pc' = "loop"

\* an exception leaves trigger_healing: in a scan of the provider it reaches
\* the handler of line 159 (sys.exit(1)); in mock mode nothing catches it and
\* the interpreter ends the process with a traceback and code 1
RaiseFromHealing(lg) ==
    /\ hpc' = "idle"
    /\ instance_id' = ""
    /\ suggested_cmd' = <<>>
    /\ raw_input' = <<>>
    /\ ret' = ret
    /\ pc' = "exited"
    /\ exit_code' = 1
    /\ log' = lg \o <<Out(IF mock_mode THEN "traceback" ELSE "err_unexpected")>>

\* check_ec2_instances, lines 112-117
MockScan ==
    /\ pc = "check" /\ mock_mode
    /\ EnterHealing(log \o <<Out("mock_line"), OutId("alert", "sentinel-test-vm")>>,
                    "sentinel-test-vm")
    /\ UNCHANGED <<mock_mode, reservations, ri, ii, total_count, stopped_count,
                   suggested_cmd, raw_input, ret, exit_code, describe_result>>

\* check_ec2_instances, lines 121-131 and the handlers of lines 149-161
Describe ==
    /\ pc = "check" /\ ~mock_mode
    /\ \E outcome \in DescribeOutcomes :
         LET lg == log \o <<Out("progress"),
                             Call("describe_instances", region, <<>>, "")>>
         IN /\ describe_result' = outcome
            /\ IF ~Fatal(outcome)
               THEN /\ log' = lg
                    /\ pc' = "loop"
                    /\ ri' = 1 /\ ii' = 1
                    /\ exit_code' = exit_code
               ELSE /\ log' = lg \o <<Out(CASE outcome = "no_credentials" -> "err_no_credentials"
                                            [] outcome = "unauthorized"   -> "err_unauthorized"
                                            [] outcome = "client_error"   -> "err_api"
                                            [] OTHER                      -> "err_unexpected")>>
                    /\ pc' = "exited"
                    /\ exit_code' = 1
                    /\ UNCHANGED <<ri, ii>>
    /\ total_count' = 0 /\ stopped_count' = 0
    /\ UNCHANGED <<mock_mode, reservations, hpc, instance_id, suggested_cmd,
                   raw_input, ret>>

\* the inner loop, lines 135-144, for one instance
NextInstance ==
    /\ pc = "loop"
    /\ ri <= Len(reservations)
    /\ ii <= Len(reservations[ri].Instances)
    /\ LET instance == reservations[ri].Instances[ii]
           id       == instance.InstanceId
           state    == instance.State.Name
       IN /\ total_count' = total_count + 1
          /\ ii' = ii + 1
          /\ IF IsStopped(state)
             THEN /\ stopped_count' = stopped_count + 1
                  /\ EnterHealing(log \o <<OutId("alert", id)>>, id)
             ELSE /\ UNCHANGED <<stopped_count, pc, hpc, instance_id, log>>
    /\ UNCHANGED <<mock_mode, reservations, ri, suggested_cmd, raw_input, ret,
                   exit_code, describe_result>>

\* the outer loop, line 134: the next reservation
NextReservation ==
    /\ pc = "loop"
    /\ ri <= Len(reservations)
    /\ ii > Len(reservations[ri].Instances)
    /\ ri' = ri + 1
    /\ ii' = 1
    /\ UNCHANGED <<mock_mode, reservations, pc, total_count, stopped_count, hpc,
                   instance_id, suggested_cmd, raw_input, ret, exit_code,
                   describe_result, log>>

\* lines 146-147
Summary ==
    /\ pc = "loop"
    /\ ri > Len(reservations)
    /\ log' = log \o <<OutCounts("summary", total_count, stopped_count)>>
    /\ ret' = stopped_count
    /\ pc' = "ret"
    /\ UNCHANGED <<mock_mode, reservations, ri, ii, total_count, stopped_count,
                   hpc, instance_id, suggested_cmd, raw_input, exit_code,
                   describe_result>>

\* trigger_healing, lines 34-39: gh --version
Probe ==
    /\ pc = "healing" /\ hpc = "probe"
    /\ \E outcome \in ProbeOutcomes :
         LET lg == log \o <<Call("probe", instance_id, ProbeArgv,
                                  CASE outcome = "ok"       -> "ok"
                                    [] outcome = "os_error" -> "raised"
                                    [] OTHER                -> "caught")>>
         IN CASE outcome = "ok" ->
                   /\ hpc' = "suggest"
                   /\ log' = lg
                   /\ UNCHANGED <<pc, instance_id, suggested_cmd, raw_input, ret,
                                  exit_code>>
              [] outcome \in {"nonzero", "not_found"} ->
                   \* CalledProcessError, FileNotFoundError
                   ReturnFromHealing(lg \o <<Out("warn_gh_not_found")>>)
              [] OTHER ->
                   \* any other exception of subprocess.run (PermissionError, ...)
                   RaiseFromHealing(lg)
    /\ UNCHANGED <<mock_mode, reservations, ri, ii, total_count, stopped_count,
                   describe_result>>

\* trigger_healing, lines 42-68: gh copilot -p prompt -s, timeout 30
Suggest ==
    /\ pc = "healing" /\ hpc = "suggest"
    /\ \E outcome \in SuggestOutcomes, stdout \in SuggestionOutputs :
         LET lg  == log \o <<Call("suggest", instance_id, SuggestArgv(instance_id), outcome)>>
             rc  == IF outcome = "ok" THEN 0 ELSE 1
             cmd == strip(stdout)
         IN CASE outcome = "timeout" ->
                   /\ stdout = <<>>
                   /\ ReturnFromHealing(lg \o <<Out("warn_timeout")>>)
              [] outcome = "nonzero" ->
                   /\ stdout = <<>>
                   /\ ReturnFromHealing(lg \o <<Out("warn_copilot_error")>>)
              [] OTHER ->
                   IF HasSuggestion(rc, cmd)
                   THEN /\ suggested_cmd' = cmd
                        /\ hpc' = "prompt"
                        /\ log' = lg \o <<OutText("suggestion", cmd)>>
                        /\ UNCHANGED <<pc, instance_id, raw_input, ret, exit_code>>
                   ELSE ReturnFromHealing(lg \o <<Out("warn_no_suggestion")>>)
    /\ UNCHANGED <<mock_mode, reservations, ri, ii, total_count, stopped_count,
                   describe_result>>

\* trigger_healing, lines 71-74 and 86-87: the approval prompt
Prompt ==
    /\ pc = "healing" /\ hpc = "prompt"
    /\ LET lg == log \o <<Call("input", instance_id, <<>>, "")>>
       IN \/ \* input() raises (EOFError): handler of line 91
             ReturnFromHealing(lg \o <<Out("warn_error")>>)
          \/ \E typed \in OperatorInputs :
               LET response == Normalize(typed)
               IN IF Approved(response)
                  THEN /\ raw_input' = typed
                       /\ hpc' = "exec"
                       /\ log' = lg \o <<Out("executing")>>
                       /\ UNCHANGED <<pc, instance_id, suggested_cmd, ret, exit_code>>
                  ELSE ReturnFromHealing(lg \o <<Out("skipped")>>)
    /\ UNCHANGED <<mock_mode, reservations, ri, ii, total_count, stopped_count,
                   describe_result>>

\* trigger_healing, lines 76-80: the start-instances subprocess is launched
Execute ==
    /\ pc = "healing" /\ hpc = "exec"
    /\ hpc' = "executing"
    /\ log' = log \o <<Call("execute", instance_id, StartInstancesArgv(instance_id), "")>>
    /\ UNCHANGED <<mock_mode, reservations, pc, ri, ii, total_count, stopped_count,
                   instance_id, suggested_cmd, raw_input, ret, exit_code,
                   describe_result>>

\* trigger_healing, lines 82-85 and 91-92: the subprocess has ended
Executed ==
    /\ pc = "healing" /\ hpc = "executing"
    /\ \E outcome \in ExecOutcomes :
         ReturnFromHealing(log \o <<CASE outcome = "ok"      -> OutId("success", instance_id)
                                      [] outcome = "nonzero" -> Out("failed")
                                      [] OTHER               -> Out("warn_error")>>)
    /\ UNCHANGED <<mock_mode, reservations, ri, ii, total_count, stopped_count,
                   describe_result>>

\* main, lines 182-185, and the end of the script
MainFinish ==
    /\ pc = "ret"
    /\ log' = log \o <<IF ret = 0 THEN Out("status_all_clear")
                                  ELSE OutCounts("status_found", ret, 0)>>
    /\ exit_code' = MainExitCode(ret)
    /\ pc' = "exited"
    /\ UNCHANGED <<mock_mode, reservations, ri, ii, total_count, stopped_count,
                   hpc, instance_id, suggested_cmd, raw_input, ret, describe_result>>

Next ==
    \/ MainStart
    \/ MockScan
    \/ Describe
    \/ NextInstance
    \/ NextReservation
    \/ Summary
    \/ Probe
    \/ Suggest
    \/ Prompt
    \/ Execute
    \/ Executed
    \/ MainFinish

Spec == Init /\ [][Next]_vars

----------------------------------------------------------------------------
(* Reading the log *)

Idx(kind) == {k \in DOMAIN log : log[k].kind = kind}
Has(kind) == Idx(kind) # {}

Ids(events) == [k \in DOMAIN events |-> events[k].id]

\* the instances whose trigger_healing call has started, in order
HealingIds == Ids(SelectSeq(log, LAMBDA e : e.kind = "healing"))

\* the instances of the response, in the provider's order, and the stopped ones
AllInstances == Flatten(reservations)
StoppedOnes  == SelectSeq(AllInstances, LAMBDA i : i.State.Name = "stopped")
StoppedIds   == [k \in DOMAIN StoppedOnes |-> StoppedOnes[k].InstanceId]

\* the lines that end a remediation attempt
EndKinds == {"warn_gh_not_found", "warn_copilot_error", "warn_no_suggestion",
             "warn_timeout", "warn_error", "skipped", "success", "failed"}

\* the events of one remediation attempt, past its first line
RemediationKinds == {"probe", "suggest", "suggestion", "input", "executing",
                     "execute"} \cup EndKinds

Last(seq) == seq[Len(seq)]

----------------------------------------------------------------------------
(* C1 *)

\* C1 as stated: the start-instances call is issued only if the operator typed
\* exactly "y"; "Y", "yes", "" and "n" issue no call.
C1_ExactMatchOnly ==
    (log # <<>> /\ Last(log).kind = "execute") => raw_input = <<"y">>

\* C1 as amended: the start-instances call is issued only if the operator's
\* input, with surrounding whitespace removed and upper case letters folded
\* to lower case, is "y"; "yes", "" and "n" issue no call.
C1_NormalizedMatchOnly ==
    (log # <<>> /\ Last(log).kind = "execute")
        => /\ hpc = "executing"
           /\ lower(strip(raw_input)) = <<"y">>
           /\ raw_input \notin { <<"y", "e", "s">>, <<>>, <<"n">> }

C1_Witness ==
    /\ log # <<>> /\ Last(log).kind = "execute"
    /\ raw_input = <<" ", "y">>

----------------------------------------------------------------------------
(* C2 *)

\* C2: every executed action is aws ec2 start-instances for the instance
\* being remediated (the one of the latest alert) in us-east-1, whatever the
\* suggestion shown before it.
C2_FixedAction ==
    \A k \in DOMAIN log :
        log[k].kind = "execute" =>
            /\ k > 7
            /\ log[k - 3].kind = "suggestion"
            /\ log[k - 6].kind = "healing" /\ log[k - 7].kind = "alert"
            /\ \A m \in (k - 6)..k : log[m].kind # "alert"
            /\ log[k].cmd = <<"aws", "ec2", "start-instances", "--instance-ids",
                              log[k - 7].id, "--region", "us-east-1">>

\* two attempts of one run, with different suggestions, both executed
C2_Witness ==
    \E j, k \in Idx("execute") :
        /\ j < k
        /\ log[j - 3].cmd # log[k - 3].cmd
        /\ log[j - 3].cmd # <<>> /\ log[k - 3].cmd # <<>>

----------------------------------------------------------------------------
(* C3 *)

\* C3: when the listing succeeded and found several stopped instances, no
\* failure of a remediation stage aborts the run: the run ends with an
\* attempt for every stopped instance, the summary line, and exit code 0.
C3_NoStageFailureAborts ==
    (pc = "exited" /\ ~mock_mode /\ describe_result = "ok" /\ Len(StoppedIds) >= 2)
        => /\ exit_code = 0
           /\ Has("summary")
           /\ HealingIds = StoppedIds

----------------------------------------------------------------------------
(* C4 *)

\* C4: a non-mock scan that returned printed one summary line, with the
\* number of instances of the response and the number of them whose state
\* is "stopped", and returned the latter.
C4_Counts ==
    (~mock_mode /\ ret # -1)
        => /\ Cardinality(Idx("summary")) = 1
           /\ \A k \in Idx("summary") :
                 /\ log[k].a = Len(AllInstances)
                 /\ log[k].b = Len(StoppedIds)
           /\ ret = Len(StoppedIds)

\* a response of three instances in two reservations, two of them stopped,
\* one remediation failed and one skipped
C4_Witness ==
    /\ ~mock_mode /\ ret # -1
    /\ Len(reservations) = 2 /\ Len(AllInstances) = 3 /\ Len(StoppedIds) = 2
    /\ Has("failed") /\ Has("warn_timeout")

----------------------------------------------------------------------------
(* C5 *)

\* C5: a mock run reports one stopped instance, sentinel-test-vm, returns 1
\* and calls neither the listing API nor the provider's start-instances.
C5_MockIsOffline ==
    mock_mode
        => /\ ~Has("describe_instances")
           /\ ~Has("execute")
           /\ ret \in {-1, 1}
           /\ \A k \in Idx("alert") : log[k].id = "sentinel-test-vm"

----------------------------------------------------------------------------
(* C6 *)

\* the six lifecycle states of the claim; "rebooting" is none of them
KnownStates == {"running", "stopped", "pending", "stopping", "terminated",
                "shutting-down"}

\* C6: a response holding an instance whose state is none of the six
\* lifecycle states never gets a summary line: the scan ends in an error.
C6_UnknownStateIsError ==
    (~mock_mode /\ \E k \in DOMAIN AllInstances :
                      AllInstances[k].State.Name \notin KnownStates)
        => /\ ~Has("summary")
           /\ pc = "exited" => exit_code = 1

----------------------------------------------------------------------------
(* C7 *)

\* C7: when describe_instances raises NoCredentialsError or is rejected as
\* unauthorized the process has exited with code 1 and nothing of a
\* remediation attempt has happened.
C7_AuthFailureIsFatal ==
    describe_result \in {"no_credentials", "unauthorized"}
        => /\ pc = "exited"
           /\ exit_code = 1
           /\ ~Has("healing") /\ ~Has("alert")
           /\ \A k \in DOMAIN log : log[k].kind \notin RemediationKinds

C7_Witness ==
    /\ describe_result = "no_credentials"
    /\ Len(StoppedIds) = 2
    /\ Has("err_no_credentials")

----------------------------------------------------------------------------
(* C8 *)

\* C8: a process that has exited has code 0 if check_ec2_instances returned
\* (then the summary and the status line are printed) and code 1 if it
\* raised (then neither is printed); a failed listing call gives code 1.
C8_ExitCode ==
    pc = "exited"
        => /\ exit_code \in {0, 1}
           /\ ret # -1 =>
                 /\ exit_code = 0
                 /\ Has("summary") \/ Has("summary_mock")
                 /\ Has("status_all_clear") \/ Has("status_found")
           /\ ret = -1 =>
                 /\ exit_code = 1
                 /\ ~Has("summary") /\ ~Has("summary_mock")
                 /\ ~Has("status_all_clear") /\ ~Has("status_found")
           /\ describe_result \notin {"ok", "none"} => ret = -1

\* two stopped instances, one start failed: still code 0
C8_Witness ==
    /\ pc = "exited" /\ exit_code = 0
    /\ ret = 2
    /\ Has("failed")

----------------------------------------------------------------------------
(* C9 *)

\* C9: at every moment of a non-mock run the attempts started so far are
\* for the first stopped instances of the response, in its order, one each;
\* an attempt starts only when the one before it has ended; the summary
\* line comes after the end of the last attempt, when there is one for
\* every stopped instance.
C9_OneAttemptEachInOrder ==
    ~mock_mode =>
        LET started == HealingIds
            stopped == StoppedIds
            ended(k) == log[k].kind \in EndKinds \cup {"describe_instances"}
        IN /\ Len(started) <= Len(stopped)
           /\ started = SubSeq(stopped, 1, Len(started))
           /\ \A k \in DOMAIN log :
                 /\ log[k].kind = "healing" =>
                       /\ log[k - 1].kind = "alert" /\ log[k - 1].id = log[k].id
                       /\ ended(k - 2)
                 /\ log[k].kind = "summary" =>
                       /\ ended(k - 1)
                       /\ started = stopped
                       /\ \A j \in k..Len(log) : log[j].kind # "healing"
           /\ hpc # "idle" => instance_id = Last(started)

\* the response [(i-1, running), (i-2, stopped), (i-3, stopped)]
C9_Witness ==
    /\ ~mock_mode /\ ret = 2
    /\ Len(AllInstances) = 3
    /\ AllInstances[1].State.Name = "running"
    /\ HealingIds = <<"i-2", "i-3">>
    /\ log[Len(log)].a = 3

----------------------------------------------------------------------------
(* C10 *)

\* C10: in the log of an attempt the probe follows the first line of
\* trigger_healing; gh copilot is called right after a probe that succeeded;
\* the operator is asked right after a non-empty suggestion was shown, which
\* follows a gh copilot call that ended with code 0; start-instances is
\* called right after the prompt was answered, and once per attempt; a
\* probe that found no usable gh, or a gh copilot call that failed, is
\* followed by the end of the attempt.
C10_StageOrder ==
    \A k \in DOMAIN log :
        LET e == log[k].kind
            after(kinds) == k < Len(log) => log[k + 1].kind \in kinds
        IN /\ e = "probe" =>
                 /\ log[k - 1].kind = "healing"
                 /\ log[k].res = "caught" => after({"warn_gh_not_found"})
                 /\ log[k].res = "raised" => after({"err_unexpected", "traceback"})
           /\ e = "suggest" =>
                 /\ log[k - 1].kind = "probe" /\ log[k - 1].res = "ok"
                 /\ log[k].res # "ok" => after(EndKinds)
           /\ e = "suggestion" =>
                 log[k - 1].kind = "suggest" /\ log[k - 1].res = "ok"
           /\ e = "input" =>
                 log[k - 1].kind = "suggestion" /\ log[k - 1].cmd # <<>>
           /\ e = "execute" =>
                 /\ log[k - 1].kind = "executing" /\ log[k - 2].kind = "input"
                 /\ \A j \in (k + 1)..Len(log) :
                       log[j].kind = "execute"
                           => \E m \in (k + 1)..(j - 1) : log[m].kind = "healing"

\* an attempt that went through all four stages after one that stopped at
\* the probe and one that stopped at an empty suggestion
C10_Witness ==
    /\ Has("warn_gh_not_found") /\ Has("warn_no_suggestion")
    /\ Has("success")


====
